---- MODULE Spec2Model ----
(***************************************************************************)
(* Verification model of the dexscreener-bsc-swap core.                    *)
(*                                                                         *)
(*  - withRetry / categorizeError / fetchPools   (src/src/dexscreener.ts)  *)
(*  - selectBestPool / isValidPoolLabel          (src/src/dexscreener.ts,  *)
(*                                                src/src/types.ts)        *)
(*                                                                         *)
(*  - calculateAmountOutMin, encodeV3Path,       (src/src/swap.ts)         *)
(*    executeSwap, executeUniversalSwap                                    *)
(*  - runSwap                                    (src/unnamed/part_005)    *)
(*                                                                         *)
(* The specifications share the variables; each holds the variables of the *)
(* others at an idle value:                                                *)
(*   SpecRetry  - one call of withRetry, stepped at every await            *)
(*   SpecSelect - selectBestPool applied to bounded listing arrays         *)
(*   SpecQuote  - calculateAmountOutMin applied to bounded arguments       *)
(*   SpecPath   - encodeV3Path applied to addresses and fee tiers          *)
(*   SpecSwap   - one call of runSwap, stepped at every await              *)
(*   SpecGas    - one call of getGasParams, stepped at its await           *)
(***************************************************************************)
EXTENDS Integers, Sequences, FiniteSets, TLC

VARIABLES
    \* ---- withRetry(fn, maxRetries, baseDelayMs) ----
    maxRetries,     \* parameter
    baseDelayMs,    \* parameter
    pc,             \* position of the async function: idle, loop, fn, sleep, done
                    \* (maxRetries is a non-negative integer, as at every call site)
    attempt,        \* the for-loop counter
    lastError,      \* `let lastError`
    calls,          \* number of invocations of fn so far
    inFlight,       \* number of fn promises pending
    sleeps,         \* the delays passed to sleep(), in order
    timer,          \* ms left on the pending setTimeout
    waited,         \* ms elapsed since the pending sleep started
    warns,          \* number of logger.warn calls
    fails,          \* number of attempts that rejected with a retryable axios error
    outcome,        \* how the returned promise settled
    response,       \* fetchPools: the pairs field of the payload last received
    \* ---- selectBestPool(pairs, minLiquidityUsd) ----
    pairs,          \* the input array
    minLiquidityUsd,\* the threshold argument
    selResult,      \* the value returned by the last call
    selCalls,       \* number of calls made on this input
    \* ---- calculateAmountOutMin(expectedOutput, slippageBps) ----
    expectedOutput, \* the bigint argument
    slippageBpsX2,  \* twice the number argument: slippageBps = slippageBpsX2 / 2
    quoteResult,    \* what the call returned or threw
    \* ---- encodeV3Path(tokenIn, tokenOut, fee) ----
    pathTokenIn,    \* argument, a hex string
    pathTokenOut,   \* argument, a hex string
    pathFee,        \* argument
    pathResult,     \* the returned hex string
    \* ---- runSwap(tokenAddress, amount, slippageOverride) ----
    swIn,           \* arguments, configuration and what the collaborators answer
    swPc,           \* position of the async function
    swLocals,       \* the local constants of runSwap, once assigned
    swNet,          \* the network calls issued so far, in order
    swOutcome,      \* how the returned promise settled
    \* ---- getGasParams(provider) ----
    gasPc,          \* position of the async function
    gasFeeData,     \* how provider.getFeeData() settled
    gasOutcome      \* how the returned promise settled

retryVars == <<maxRetries, baseDelayMs, pc, attempt, lastError, calls, inFlight,
               sleeps, timer, waited, warns, fails, outcome, response>>
selVars == <<pairs, minLiquidityUsd, selResult, selCalls>>
quoteVars == <<expectedOutput, slippageBpsX2, quoteResult>>
pathVars == <<pathTokenIn, pathTokenOut, pathFee, pathResult>>
swapVars == <<swIn, swPc, swLocals, swNet, swOutcome>>
gasVars == <<gasPc, gasFeeData, gasOutcome>>
vars == <<maxRetries, baseDelayMs, pc, attempt, lastError, calls, inFlight,
          sleeps, timer, waited, warns, fails, outcome, response,
          pairs, minLiquidityUsd, selResult, selCalls,
          expectedOutput, slippageBpsX2, quoteResult,
          pathTokenIn, pathTokenOut, pathFee, pathResult,
          swIn, swPc, swLocals, swNet, swOutcome,
          gasPc, gasFeeData, gasOutcome>>

-----------------------------------------------------------------------------
(* Program constants                                                       *)

MAX_RETRIES == 3
BASE_DELAY_MS == 1000

(* Bounds of the model                                                     *)

\* withRetry is explored for every maxRetries in 0..MaxRetriesBound
MaxRetriesBound == 3
\* granularity of the clock that drives setTimeout
TickMs == 500

-----------------------------------------------------------------------------
(* Errors a wrapped call can reject with.  An error value is a record:     *)
(* isAxiosError (what axios.isAxiosError answers), code (error.code),      *)
(* hasResponse (error.response is set) and status (error.response.status). *)

NoStatus == 0 - 1

ErrorCodes == {"ECONNABORTED", "ETIMEDOUT", "ENOTFOUND", "ECONNREFUSED",
               "ENETUNREACH", "ERR_BAD_REQUEST", "ERR_CANCELED", "undefined"}

HttpStatuses == {302, 400, 404, 429, 499, 500, 503, 599, 600}

Errors ==
    [isAxiosError : BOOLEAN, code : ErrorCodes, hasResponse : {TRUE},
     status : HttpStatuses]
    \cup
    [isAxiosError : BOOLEAN, code : ErrorCodes, hasResponse : {FALSE},
     status : {NoStatus}]

NoError == [isAxiosError |-> FALSE, code |-> "undefined", hasResponse |-> FALSE,
            status |-> NoStatus - 1]

\* the pairs field of the payload axios.get resolves with: absent, null, or
\* an array (the empty one, or one of two named ones)
PairsFields == {"undefined", "null", "[]", "pairsA", "pairsB"}

\* variant: only an absent field is replaced
pairsOrEmptyUndefinedOnly(field) == IF field = "undefined" THEN "[]" ELSE field

\* fetchPools: `response.data.pairs ?? []`
pairsOrEmpty(field) ==
    IF field = "undefined" \/ field = "null" THEN "[]" ELSE field

\* values the wrapped call can resolve with
FnValues == {"[]", "pairsA", "pairsB"}

\* variant: every caught value is taken for an axios error
isAxiosErrorAlways(error) == TRUE

\* axios.isAxiosError(error)
isAxiosError(error) == error.isAxiosError

\* variant: every response status is taken as retryable
categorizeErrorStatusBlind(error) ==
    IF error.code = "ECONNABORTED" \/ error.code = "ETIMEDOUT"
    THEN [message |-> "Dexscreener API timeout, retrying...", isRetryable |-> TRUE,
          statusCode |-> NoStatus]
    ELSE IF error.hasResponse
    THEN [message |-> "Server error, retrying...", isRetryable |-> TRUE,
          statusCode |-> error.status]
    ELSE [message |-> "Network error, check connection", isRetryable |-> TRUE,
          statusCode |-> NoStatus]

\* categorizeError(error): { message, isRetryable, statusCode? }
categorizeError(error) ==
    IF error.code = "ECONNABORTED" \/ error.code = "ETIMEDOUT"
    THEN [message |-> "Dexscreener API timeout, retrying...", isRetryable |-> TRUE,
          statusCode |-> NoStatus]
    ELSE IF error.hasResponse
    THEN IF error.status = 429
         THEN [message |-> "Rate limited, waiting...", isRetryable |-> TRUE,
               statusCode |-> error.status]
         ELSE IF error.status >= 500 /\ error.status < 600
         THEN [message |-> "Server error, retrying...", isRetryable |-> TRUE,
               statusCode |-> error.status]
         ELSE [message |-> "API error", isRetryable |-> FALSE,
               statusCode |-> error.status]
    ELSE IF error.code = "ENOTFOUND" \/ error.code = "ECONNREFUSED"
            \/ error.code = "ENETUNREACH"
    THEN [message |-> "Network error, check connection", isRetryable |-> TRUE,
          statusCode |-> NoStatus]
    ELSE [message |-> "Network error, check connection", isRetryable |-> TRUE,
          statusCode |-> NoStatus]

\* the for-loop test `attempt <= maxRetries`
loopCondition(a, m) == a <= m

\* variant: the test `attempt === maxRetries` is left out
giveUpNever(isRetryable, a, m) == ~isRetryable

\* variant: the test `!isRetryable` is left out
giveUpOnlyWhenExhausted(isRetryable, a, m) == a = m

\* `!isRetryable || attempt === maxRetries`
giveUp(isRetryable, a, m) == ~isRetryable \/ a = m

\* variant: a delay growing linearly
backoffDelayLinear(base, a) == base * (a + 1)

\* `baseDelayMs * Math.pow(2, attempt)`
backoffDelay(base, a) == base * (2 ^ a)

\* variant: sleep() is not awaited
sleepElapsedAtOnce(t) == TRUE

\* the promise of sleep(ms) resolves when its timer has run out
sleepElapsed(t) == t = 0

-----------------------------------------------------------------------------
(* Settled states of the promise withRetry returns                         *)

Pending == [kind |-> "pending", value |-> "none", error |-> NoError,
            message |-> "none", statusCode |-> NoStatus, isRetryable |-> FALSE]

Returned(v) == [kind |-> "returned", value |-> v, error |-> NoError,
                message |-> "none", statusCode |-> NoStatus, isRetryable |-> FALSE]

\* `throw error` / `throw lastError`: the caught value itself
Rethrown(e) == [kind |-> "rethrown", value |-> "none", error |-> e,
                message |-> "none", statusCode |-> NoStatus, isRetryable |-> FALSE]

\* `throw new DexscreenerApiError(message, statusCode, isRetryable)`
DexscreenerApiError(message, statusCode, isRetryable) ==
    [kind |-> "DexscreenerApiError", value |-> "none", error |-> NoError,
     message |-> message, statusCode |-> statusCode, isRetryable |-> isRetryable]

-----------------------------------------------------------------------------
(* selectBestPool.  A listing (DexscreenerPair) is a record: chainId,      *)
(* pairAddress, dexId, hasLabels / labels (the optional labels array) and  *)
(* hasLiquidityUsd / usd (the optional liquidity.usd).                     *)

\* selectBestPool is explored for every array of at most MaxPairs listings
MaxPairs == 2
\* number of calls made on one input array
MaxSelectCalls == 2

ChainIds == {"bsc", "ethereum"}
DexIds == <<"pancakeswap", "uniswap", "biswap">>
LabelArrays == {<<"stable">>, <<"v2">>, <<"v3">>, <<"v2", "v3">>, <<"v3", "v2">>,
                <<"stable", "v3">>}
LiquidityValues == {0, 1000, 5000}
Thresholds == {0, 1000, 2000}

\* the parts of a listing that selection reads and that vary freely
ListingShapes ==
    [chainId : ChainIds, hasLabels : {TRUE}, labels : LabelArrays,
     hasLiquidityUsd : {TRUE}, usd : LiquidityValues]
    \cup
    [chainId : ChainIds, hasLabels : {FALSE}, labels : {<<>>},
     hasLiquidityUsd : {TRUE}, usd : LiquidityValues]
    \cup
    [chainId : ChainIds, hasLabels : {TRUE}, labels : LabelArrays,
     hasLiquidityUsd : {FALSE}, usd : {0}]
    \cup
    [chainId : ChainIds, hasLabels : {FALSE}, labels : {<<>>},
     hasLiquidityUsd : {FALSE}, usd : {0}]

\* the listing at position i of the payload: its address is i, its DEX
\* identifier is taken from DexIds in turn
Listing(i, shape) ==
    [chainId |-> shape.chainId, pairAddress |-> i,
     dexId |-> DexIds[((i - 1) % Len(DexIds)) + 1],
     hasLabels |-> shape.hasLabels, labels |-> shape.labels,
     hasLiquidityUsd |-> shape.hasLiquidityUsd, usd |-> shape.usd]

NoValue == 0 - 1
NoPool == [pairAddress |-> 0, poolType |-> "none", dexId |-> "none",
           liquidity |-> NoValue]

\* isValidPoolLabel(label)
isValidPoolLabel(label) == label = "v2" \/ label = "v3"

\* variant: no chain filter
isTargetChainAny(chainId) == TRUE

\* `p.chainId === 'bsc'`
isTargetChain(chainId) == chainId = "bsc"

\* `pair.liquidity?.usd ?? 0`
liquidityUsd(pair) == IF pair.hasLiquidityUsd THEN pair.usd ELSE 0

\* variant: a strict comparison with the threshold
meetsThresholdStrict(usd, min) == usd > min

\* `(item.pair.liquidity?.usd ?? 0) >= minLiquidityUsd`
meetsThreshold(usd, min) == usd >= min

\* variant: v2 preferred wherever it stands in the labels
findValidLabelPreferV2(pair) ==
    IF ~pair.hasLabels THEN "undefined"
    ELSE IF \E i \in 1..Len(pair.labels) : pair.labels[i] = "v2" THEN "v2"
    ELSE IF \E i \in 1..Len(pair.labels) : pair.labels[i] = "v3" THEN "v3"
    ELSE "undefined"

\* `pair.labels?.find((l) => isValidPoolLabel(l))`
findValidLabel(pair) ==
    IF ~pair.hasLabels THEN "undefined"
    ELSE LET hits == {i \in 1..Len(pair.labels) : isValidPoolLabel(pair.labels[i])} IN
         IF hits = {} THEN "undefined"
         ELSE pair.labels[CHOOSE i \in hits : \A j \in hits : i <= j]

\* the comparator `(a, b) => (b.pair.liquidity?.usd ?? 0) - (a.pair.liquidity?.usd ?? 0)`
compareLiquidity(a, b) == liquidityUsd(b.pair) - liquidityUsd(a.pair)

\* variant: an insertion that puts x before elements comparing equal to it
RECURSIVE insertUnstable(_, _)
insertUnstable(x, sorted) ==
    IF sorted = <<>> THEN <<x>>
    ELSE IF compareLiquidity(x, Head(sorted)) <= 0 THEN <<x>> \o sorted
    ELSE <<Head(sorted)>> \o insertUnstable(x, Tail(sorted))

\* x, which came after every element of sorted, goes before the first element
\* the comparator orders it strictly before
RECURSIVE insertStable(_, _)
insertStable(x, sorted) ==
    IF sorted = <<>> THEN <<x>>
    ELSE IF compareLiquidity(x, Head(sorted)) < 0 THEN <<x>> \o sorted
    ELSE <<Head(sorted)>> \o insertStable(x, Tail(sorted))

\* Array.prototype.sort with the comparator above: a stable sort
RECURSIVE sortFrom(_, _)
sortFrom(items, sorted) ==
    IF items = <<>> THEN sorted
    ELSE sortFrom(Tail(items), insertStable(Head(items), sorted))

sortByLiquidity(items) == sortFrom(items, <<>>)

\* selectBestPool(pairs, minLiquidityUsd)
selectBestPool(ps, min) ==
    LET onChain(p) == isTargetChain(p.chainId)
        bscPairs == SelectSeq(ps, onChain)
        mapped == [i \in 1..Len(bscPairs) |->
                      [pair |-> bscPairs[i], poolType |-> findValidLabel(bscPairs[i])]]
        notNull(item) == item.poolType # "undefined"
        validPairs == SelectSeq(mapped, notNull)
        liquid(item) == meetsThreshold(liquidityUsd(item.pair), min)
        liquidPairs == SelectSeq(validPairs, liquid)
    IN  IF Len(validPairs) = 0
        THEN [success |-> FALSE, reason |-> "no_valid_pools",
              minLiquidityUsd |-> NoValue, pool |-> NoPool]
        ELSE IF Len(liquidPairs) = 0
        THEN [success |-> FALSE, reason |-> "insufficient_liquidity",
              minLiquidityUsd |-> min, pool |-> NoPool]
        ELSE LET best == sortByLiquidity(liquidPairs)[1] IN
             [success |-> TRUE, reason |-> "none", minLiquidityUsd |-> NoValue,
              pool |-> [pairAddress |-> best.pair.pairAddress,
                        poolType |-> best.poolType,
                        dexId |-> best.pair.dexId,
                        liquidity |-> liquidityUsd(best.pair)]]

NotCalled == [success |-> FALSE, reason |-> "not_called", minLiquidityUsd |-> NoValue,
              pool |-> NoPool]

\* calculateAmountOutMin has not been called
QuoteNotCalled == [threw |-> FALSE, message |-> "not_called", value |-> 0 - 1]

QuoteIdle ==
    /\ expectedOutput = 0
    /\ slippageBpsX2 = 0
    /\ quoteResult = QuoteNotCalled

PathIdle ==
    /\ pathTokenIn = <<>>
    /\ pathTokenOut = <<>>
    /\ pathFee = 0
    /\ pathResult = <<>>

SwapIdle ==
    /\ swIn = <<>>
    /\ swPc = "idle"
    /\ swLocals = <<>>
    /\ swNet = <<>>
    /\ swOutcome = <<>>

GasIdle ==
    /\ gasPc = "idle"
    /\ gasFeeData = <<>>
    /\ gasOutcome = <<>>

SelIdle ==
    /\ pairs = <<>>
    /\ minLiquidityUsd = 0
    /\ selResult = NotCalled
    /\ selCalls = 0

RetryIdle ==
    /\ maxRetries = 0
    /\ baseDelayMs = 0
    /\ pc = "idle"
    /\ attempt = 0
    /\ lastError = NoError
    /\ calls = 0
    /\ inFlight = 0
    /\ sleeps = <<>>
    /\ timer = 0
    /\ waited = 0
    /\ warns = 0
    /\ fails = 0
    /\ outcome = Pending
    /\ response = "none"

InitSelect ==
    /\ \E n \in 0..MaxPairs : \E shapes \in [1..n -> ListingShapes] :
            pairs = [i \in 1..n |-> Listing(i, shapes[i])]
    /\ minLiquidityUsd \in Thresholds
    /\ selResult = NotCalled
    /\ selCalls = 0
    /\ RetryIdle
    /\ QuoteIdle
    /\ PathIdle
    /\ SwapIdle
    /\ GasIdle

\* variant: the sort runs in place on the array passed in
pairsAfterCallSortedInPlace(ps, min) ==
    LET items == [i \in 1..Len(ps) |-> [pair |-> ps[i], poolType |-> "v2"]]
        sorted == sortByLiquidity(items)
    IN  [i \in 1..Len(ps) |-> sorted[i].pair]

\* the caller's array once selectBestPool(pairs, minLiquidityUsd) has
\* returned: filter and map build new arrays, and the only in-place
\* operation, sort, runs on liquidPairs
pairsAfterCall(ps, min) == ps

\* one call selectBestPool(pairs, minLiquidityUsd)
SelectBestPool ==
    /\ selCalls < MaxSelectCalls
    /\ selResult' = selectBestPool(pairs, minLiquidityUsd)
    /\ selCalls' = selCalls + 1
    /\ pairs' = pairsAfterCall(pairs, minLiquidityUsd)
    /\ UNCHANGED minLiquidityUsd
    /\ UNCHANGED <<retryVars, quoteVars, pathVars, swapVars, gasVars>>

NextSelect == SelectBestPool

SpecSelect == InitSelect /\ [][NextSelect]_vars

-----------------------------------------------------------------------------
(* withRetry, one action per step between awaits                           *)

InitRetry ==
    /\ maxRetries \in 0..MaxRetriesBound
    /\ baseDelayMs \in {TickMs, BASE_DELAY_MS}
    /\ pc = "loop"
    /\ attempt = 0
    /\ lastError = NoError
    /\ calls = 0
    /\ inFlight = 0
    /\ sleeps = <<>>
    /\ timer = 0
    /\ waited = 0
    /\ warns = 0
    /\ fails = 0
    /\ outcome = Pending
    /\ response = "none"
    /\ SelIdle
    /\ QuoteIdle
    /\ PathIdle
    /\ SwapIdle
    /\ GasIdle

\* Loop head: either `await fn()` is started, or the loop is left and
\* `throw lastError` runs.
Attempt ==
    /\ pc = "loop"
    /\ IF loopCondition(attempt, maxRetries)
       THEN /\ calls' = calls + 1
            /\ inFlight' = inFlight + 1
            /\ pc' = "fn"
            /\ UNCHANGED outcome
       ELSE /\ outcome' = Rethrown(lastError)
            /\ pc' = "done"
            /\ UNCHANGED <<calls, inFlight>>
    /\ UNCHANGED <<maxRetries, baseDelayMs, attempt, lastError, sleeps, timer,
                   waited, warns, fails, response>>
    /\ UNCHANGED <<selVars, quoteVars, pathVars, swapVars, gasVars>>

\* fn() resolves: `return await fn()`, fn being the function fetchPools
\* passes: axios.get resolves and `response.data.pairs ?? []` is returned
FnResolves ==
    /\ pc = "fn"
    /\ \E field \in PairsFields :
         /\ response' = field
         /\ outcome' = Returned(pairsOrEmpty(field))
    /\ inFlight' = inFlight - 1
    /\ pc' = "done"
    /\ UNCHANGED <<maxRetries, baseDelayMs, attempt, lastError, calls, sleeps,
                   timer, waited, warns, fails>>
    /\ UNCHANGED <<selVars, quoteVars, pathVars, swapVars, gasVars>>

\* fn() rejects: the catch block, up to its throw or up to `await sleep(delayMs)`
FnRejects ==
    /\ pc = "fn"
    /\ \E error \in Errors :
        /\ lastError' = error
        /\ inFlight' = inFlight - 1
        /\ fails' = IF error.isAxiosError /\ categorizeError(error).isRetryable
                    THEN fails + 1 ELSE fails
        /\ IF ~isAxiosError(error)
           THEN /\ outcome' = Rethrown(error)
                /\ pc' = "done"
                /\ UNCHANGED <<sleeps, timer, waited, warns>>
           ELSE LET c == categorizeError(error) IN
                IF giveUp(c.isRetryable, attempt, maxRetries)
                THEN /\ outcome' = DexscreenerApiError(c.message, c.statusCode,
                                                       c.isRetryable)
                     /\ pc' = "done"
                     /\ UNCHANGED <<sleeps, timer, waited, warns>>
                ELSE LET delayMs == backoffDelay(baseDelayMs, attempt) IN
                     /\ warns' = warns + 1
                     /\ sleeps' = Append(sleeps, delayMs)
                     /\ timer' = delayMs
                     /\ waited' = 0
                     /\ pc' = "sleep"
                     /\ UNCHANGED outcome
    /\ UNCHANGED <<maxRetries, baseDelayMs, attempt, calls, response>>
    /\ UNCHANGED <<selVars, quoteVars, pathVars, swapVars, gasVars>>

\* the clock advances while the timer of sleep() is pending
Tick ==
    /\ pc = "sleep"
    /\ timer > 0
    /\ LET d == IF timer < TickMs THEN timer ELSE TickMs IN
        /\ timer' = timer - d
        /\ waited' = waited + d
    /\ UNCHANGED <<maxRetries, baseDelayMs, pc, attempt, lastError, calls, inFlight,
                   sleeps, warns, fails, outcome, response>>
    /\ UNCHANGED <<selVars, quoteVars, pathVars, swapVars, gasVars>>

\* the sleep promise resolves; the catch block ends and `attempt++` runs
Wake ==
    /\ pc = "sleep"
    /\ sleepElapsed(timer)
    /\ attempt' = attempt + 1
    /\ pc' = "loop"
    /\ UNCHANGED <<maxRetries, baseDelayMs, lastError, calls, inFlight, sleeps,
                   timer, waited, warns, fails, outcome, response>>
    /\ UNCHANGED <<selVars, quoteVars, pathVars, swapVars, gasVars>>

NextRetry == Attempt \/ FnResolves \/ FnRejects \/ Tick \/ Wake

SpecRetry == InitRetry /\ [][NextRetry]_vars

-----------------------------------------------------------------------------
(* calculateAmountOutMin(expectedOutput: bigint, slippageBps: number).     *)
(* The number argument is carried doubled, so that values with a fraction  *)
(* of one half are inputs too: Math.floor(slippageBps) is slippageBpsX2    *)
(* divided by 2, rounded down.                                             *)

\* calculateAmountOutMin is explored for expectedOutput in 0..MaxExpectedOutput
\* and for the larger amounts of LargeOutputs
MaxExpectedOutput == 6
LargeOutputs == {9999, 10000, 10001, 100000}
\* slippageBps ranges over -MarginX2/2 .. 10000 + MarginX2/2 in steps of 1/2
MarginX2 == 4

\* Math.floor of the number carried as x2
mathFloor(x2) == x2 \div 2

\* bigint division truncates toward zero
bigintDiv(a, b) == IF a >= 0 THEN a \div b ELSE 0 - ((0 - a) \div b)

Threw(message) == [threw |-> TRUE, message |-> message, value |-> 0 - 1]
Value(v) == [threw |-> FALSE, message |-> "none", value |-> v]

\* variant: the upper bound of the range test is left out
calculateAmountOutMinNoUpperBound(e, x2) ==
    IF x2 < 0
    THEN Threw("Slippage must be between 0 and 10000 basis points")
    ELSE Value(bigintDiv(e * (10000 - mathFloor(x2)), 10000))

\* variant: the tolerance is truncated to whole percents
calculateAmountOutMinWholePercent(e, x2) ==
    IF x2 < 0 \/ x2 > 2 * 10000
    THEN Threw("Slippage must be between 0 and 10000 basis points")
    ELSE Value(bigintDiv(e * (10000 - 100 * (mathFloor(x2) \div 100)), 10000))

\* variant: the quotient is rounded up
calculateAmountOutMinRoundUp(e, x2) ==
    IF x2 < 0 \/ x2 > 2 * 10000
    THEN Threw("Slippage must be between 0 and 10000 basis points")
    ELSE Value(bigintDiv(e * (10000 - mathFloor(x2)) + 9999, 10000))

\* calculateAmountOutMin(expectedOutput, slippageBps)
calculateAmountOutMin(e, x2) ==
    IF x2 < 0 \/ x2 > 2 * 10000
    THEN Threw("Slippage must be between 0 and 10000 basis points")
    ELSE LET slippageMultiplier == 10000 - mathFloor(x2) IN
         Value(bigintDiv(e * slippageMultiplier, 10000))

InitQuote ==
    /\ expectedOutput \in (0..MaxExpectedOutput) \cup LargeOutputs
    /\ slippageBpsX2 \in (0 - MarginX2)..(2 * 10000 + MarginX2)
    /\ quoteResult = QuoteNotCalled
    /\ RetryIdle
    /\ SelIdle
    /\ PathIdle
    /\ SwapIdle
    /\ GasIdle

\* one call calculateAmountOutMin(expectedOutput, slippageBps)
CalculateAmountOutMin ==
    /\ quoteResult = QuoteNotCalled
    /\ quoteResult' = calculateAmountOutMin(expectedOutput, slippageBpsX2)
    /\ UNCHANGED <<expectedOutput, slippageBpsX2>>
    /\ UNCHANGED <<retryVars, selVars, pathVars, swapVars, gasVars>>

NextQuote == CalculateAmountOutMin

SpecQuote == InitQuote /\ [][NextQuote]_vars

-----------------------------------------------------------------------------
(* encodeV3Path(tokenIn: string, tokenOut: string, fee: number).           *)
(* A string is a sequence of one-character strings.                        *)

HexDigits == <<"0", "1", "2", "3", "4", "5", "6", "7",
               "8", "9", "a", "b", "c", "d", "e", "f">>

UpperHexDigits == <<"0", "1", "2", "3", "4", "5", "6", "7",
                    "8", "9", "A", "B", "C", "D", "E", "F">>

\* the value of one hexadecimal digit, of either case
hexValue(c) ==
    CHOOSE v \in 0..15 : HexDigits[v + 1] = c \/ UpperHexDigits[v + 1] = c

UpperCaseLetters == <<"A", "B", "C", "D", "E", "F", "G", "H", "I", "J", "K", "L", "M",
                      "N", "O", "P", "Q", "R", "S", "T", "U", "V", "W", "X", "Y", "Z">>

LowerCaseLetters == <<"a", "b", "c", "d", "e", "f", "g", "h", "i", "j", "k", "l", "m",
                      "n", "o", "p", "q", "r", "s", "t", "u", "v", "w", "x", "y", "z">>

\* the lower-case form of one character
lowerCaseOf(c) ==
    IF \E k \in 1..26 : UpperCaseLetters[k] = c
    THEN LowerCaseLetters[CHOOSE k \in 1..26 : UpperCaseLetters[k] = c]
    ELSE c

\* String.prototype.toLowerCase
toLowerCase(str) == [i \in 1..Len(str) |-> lowerCaseOf(str[i])]

\* String.prototype.startsWith
startsWith(str, prefix) ==
    /\ Len(str) >= Len(prefix)
    /\ SubSeq(str, 1, Len(prefix)) = prefix

\* String.prototype.slice(2)
slice2(str) == SubSeq(str, 3, Len(str))

\* String.prototype.padStart(targetLength, padString), padString one character
padStart(str, targetLength, c) ==
    IF Len(str) >= targetLength
    THEN str
    ELSE [i \in 1..(targetLength - Len(str)) |-> c] \o str

\* Number.prototype.toString(16) of a non-negative integer
RECURSIVE toString16(_)
toString16(n) ==
    IF n < 16
    THEN <<HexDigits[n + 1]>>
    ELSE toString16(n \div 16) \o <<HexDigits[(n % 16) + 1]>>

\* the two-character texts an address byte is written with
ByteTexts == {<<"A", "A">>, <<"b", "B">>, <<"0", "9">>, <<"c", "0">>}

\* a 20-byte address as text: first byte, 18 equal bytes, last byte
AddressText(first, fill, last) ==
    <<"0", "x">> \o first
        \o [i \in 1..36 |-> fill[2 - (i % 2)]] \o last

\* the fee tiers of a uint24: the ends, the tiers in use, the byte boundaries
FeeTiers == {0, 1, 100, 255, 256, 500, 2500, 3000, 10000,
             65535, 65536, 16777215}

\* variant: the fee is written without padding
encodeV3PathFeeUnpadded(tokenIn, tokenOut, fee) ==
    <<"0", "x">>
        \o padStart(toLowerCase(slice2(tokenIn)), 40, "0")
        \o toString16(fee)
        \o padStart(toLowerCase(slice2(tokenOut)), 40, "0")

\* encodeV3Path(tokenIn, tokenOut, fee)
encodeV3Path(tokenIn, tokenOut, fee) ==
    LET tokenInHex == padStart(toLowerCase(slice2(tokenIn)), 40, "0")
        tokenOutHex == padStart(toLowerCase(slice2(tokenOut)), 40, "0")
        feeHex == padStart(toString16(fee), 6, "0")
    IN  <<"0", "x">> \o tokenInHex \o feeHex \o tokenOutHex

InitPath ==
    /\ \E f1 \in ByteTexts, f2 \in ByteTexts, f3 \in ByteTexts :
           pathTokenIn = AddressText(f1, f2, f3)
    /\ \E f1 \in ByteTexts, f2 \in ByteTexts, f3 \in ByteTexts :
           pathTokenOut = AddressText(f1, f2, f3)
    /\ pathFee \in FeeTiers
    /\ pathResult = <<>>
    /\ RetryIdle
    /\ SelIdle
    /\ QuoteIdle
    /\ SwapIdle
    /\ GasIdle

\* one call encodeV3Path(tokenIn, tokenOut, fee)
EncodeV3Path ==
    /\ pathResult = <<>>
    /\ pathResult' = encodeV3Path(pathTokenIn, pathTokenOut, pathFee)
    /\ UNCHANGED <<pathTokenIn, pathTokenOut, pathFee>>
    /\ UNCHANGED <<retryVars, selVars, quoteVars, swapVars, gasVars>>

NextPath == EncodeV3Path

SpecPath == InitPath /\ [][NextPath]_vars

-----------------------------------------------------------------------------
(* runSwap, executeSwap, executeUniversalSwap and what they call.          *)
(*                                                                         *)
(* Amounts of the native asset are carried in units of 10^15 wei, so that  *)
(* parseEther stays within the checker's integers.  A fee amount is a      *)
(* bigint of wei, carried exactly as two limbs: hi * 10^6 + lo with        *)
(* 0 <= lo < 10^6.                                                         *)

DEFAULT_BASE_FEE_GWEI == 5
BSC_PRIORITY_FEE_GWEI == 3
GAS_FEE_BUFFER_PERCENT == 20
PANCAKESWAP_V2_ROUTER == "0x10ED43C718714eb63d5aA57B78B54704E256024E"
PANCAKESWAP_V3_ROUTER == "0x1b81D678ffb9C0263b24A97847620C99d213eB14"
WBNB_ADDRESS ==
    <<"0", "x", "b", "b", "4", "C", "d", "B", "9", "C", "B", "d", "3", "6",
      "B", "0", "1", "b", "D", "1", "c", "B", "a", "E", "B", "F", "2", "D",
      "e", "0", "8", "d", "9", "1", "7", "3", "b", "c", "0", "9", "5", "c">>
DEFAULT_V3_POOL_FEE == 2500
PANCAKESWAP_UNIVERSAL_ROUTER == "0xd9C500DfF816a1Da21A48A732d3498Bf09dc9AEB"
UNISWAP_UNIVERSAL_ROUTER == "0x5dc88340e1c5c6366864ee415d6034cadd1a9897"
V3_SWAP_EXACT_IN == 0
V2_SWAP_EXACT_IN == 8
DEFAULT_SLIPPAGE == 1
DEFAULT_DEADLINE_SECONDS == 30
DEFAULT_MIN_LIQUIDITY_USD == 1000

\* parseEther of one unit of the native asset, in amount units
EtherInUnits == 1000
\* the limb of a fee amount: 10^6 wei
WeiLimb == 1000000
\* parseUnits('1', 'gwei') = 10^9 wei, in limbs
GweiInLimbs == 1000

\* the fee amount hi * 10^6 + lo wei
Wei(hi, lo) == [hi |-> hi, lo |-> lo]
NoWei == Wei(0 - 1, 0)

\* bigint: a * k for a fee amount a and a small k
weiTimes(a, k) ==
    Wei(a.hi * k + ((a.lo * k) \div WeiLimb), (a.lo * k) % WeiLimb)

\* bigint: a / d for a fee amount a and a small d
weiDiv(a, d) ==
    Wei(a.hi \div d, (((a.hi % d) * WeiLimb) + a.lo) \div d)

\* bigint: a <= b
weiLeq(a, b) == a.hi < b.hi \/ (a.hi = b.hi /\ a.lo <= b.lo)

\* ---------------------------------------------------------------- inputs --

\* a JavaScript number with at most three decimals is carried in thousandths
NaN == [nan |-> TRUE, milli |-> 0]
Num(milli) == [nan |-> FALSE, milli |-> milli]

\* what parseFloat gives for the --slippage texts: "abc", "-1", "0", "0.005",
\* "0.01", "0.29", "0.5", "1", "1.15", "1.255", "99.99", "99.995", "100"
SlippageNumbers ==
    {NaN} \cup {Num(m) : m \in {0 - 1000, 0, 5, 10, 290, 500, 1000, 1150, 1255,
                                99990, 99995, 100000}}

\* an optional argument
Absent == [present |-> FALSE, value |-> NaN]
Present(v) == [present |-> TRUE, value |-> v]

\* the amount texts
AmountTexts == {"abc", "", "0", "0.0", "-1", "0.01", "1"}

\* the PRIVATE_KEY of the environment: unset, blank, set
PrivateKeys == {<<>>, <<" ", " ">>, <<" ", "k", "e", "y">>}

\* the token addresses
TokenAddresses ==
    {AddressText(<<"A", "A">>, <<"A", "A">>, <<"A", "A">>),
     AddressText(<<"c", "0">>, <<"b", "B">>, <<"0", "9">>)}

\* DEX identifiers: '', 'uni', 'uniswap', 'Uniswap_v3', 'pancakeswap'
SwapDexIds ==
    {<<>>,
     <<"u", "n", "i">>,
     <<"u", "n", "i", "s", "w", "a", "p">>,
     <<"U", "n", "i", "s", "w", "a", "p", "_", "v", "3">>,
     <<"p", "a", "n", "c", "a", "k", "e", "s", "w", "a", "p">>}

\* the DEX identifiers the discovery fetch answers: 'uniswap', 'Uniswap_v3',
\* 'pancakeswap'
ListingDexIds == {d \in SwapDexIds : Len(d) >= 7}

\* SwapParams.dexId?: string
NoDexId == [present |-> FALSE, text |-> <<>>]
DexId(text) == [present |-> TRUE, text |-> text]

\* the listings the discovery fetch answers
SwapListingShapes ==
    [chainId : {"bsc"}, hasLabels : {TRUE}, labels : {<<"v2">>, <<"v3">>},
     hasLiquidityUsd : {TRUE}, usd : {500, 5000}]
    \cup
    [chainId : {"bsc"}, hasLabels : {TRUE}, labels : {<<"v3">>},
     hasLiquidityUsd : {TRUE}, usd : {7000}]
    \cup
    [chainId : {"ethereum"}, hasLabels : {TRUE}, labels : {<<"v3">>},
     hasLiquidityUsd : {TRUE}, usd : {5000}]

SwapListing(i, shape, dexId) == [Listing(i, shape) EXCEPT !.dexId = dexId]

\* what router.getAmountsOut answers as amounts[1]
QuoteAnswers == {0, 1, 12345}

\* what provider.getFeeData answers as maxFeePerGas: null or an amount
NullFee == [isNull |-> TRUE, amount |-> Wei(0, 0)]
Fee(amount) == [isNull |-> FALSE, amount |-> amount]
\* null, 0, 7 wei, 1 gwei, 5 gwei
FeeDataAnswers ==
    {NullFee, Fee(Wei(0, 0)), Fee(Wei(0, 7)), Fee(Wei(GweiInLimbs, 0)),
     Fee(Wei(5 * GweiInLimbs, 0))}

\* the hashes of the submitted transactions
TxHashes == {"0xhash1", "0xhash2"}

\* what a collaborator rejects with
Err(name, message) == [name |-> name, message |-> message]
NoErr == Err("none", "none")
FetchErrors == {Err("DexscreenerApiError", "Max retries exceeded")}
ChainErrors == {Err("Error", "execution reverted"),
                Err("Error", "insufficient funds")}

\* the clock, in seconds
ClockSeconds == {1700000000}

\* wallet.address
WalletAddress == "0xWallet"

\* --------------------------------------------------------------- outcome --

SwPending == [kind |-> "pending", value |-> "none", error |-> NoErr]
SwReturned(hash) == [kind |-> "returned", value |-> hash, error |-> NoErr]
SwThrew(e) == [kind |-> "threw", value |-> "none", error |-> e]

\* the stages of a swap, as swLocals.stages records them when they run:
\* fetchPools, selectBestPool, getExpectedOutput, calculateAmountOutMin and
\* the router call
StageOrder == <<"fetch", "select", "quote", "calculate", "submit">>

\* ---------------------------------------------------------- network calls --

NoFees == [maxFeePerGas |-> NoWei, maxPriorityFeePerGas |-> NoWei]

NetCall(kind, target, method, args, value, fees) ==
    [kind |-> kind, target |-> target, method |-> method, args |-> args,
     value |-> value, maxFeePerGas |-> fees.maxFeePerGas,
     maxPriorityFeePerGas |-> fees.maxPriorityFeePerGas]

\* axios.get of fetchPools
FetchCall(tokenAddress) ==
    NetCall("fetch", "api.dexscreener.com", "GET", <<tokenAddress>>, 0, NoFees)

\* router.getAmountsOut of getExpectedOutput
GetAmountsOutCall(amountIn, tokenIn, tokenOut) ==
    NetCall("read", PANCAKESWAP_V2_ROUTER, "getAmountsOut",
            <<amountIn, <<tokenIn, tokenOut>>>>, 0, NoFees)

\* provider.getFeeData of getGasParams
GetFeeDataCall == NetCall("read", "provider", "getFeeData", <<>>, 0, NoFees)

\* ------------------------------------------------------------ config.ts ----

\* String.prototype.trim
RECURSIVE trim(_)
trim(str) ==
    IF Len(str) = 0 THEN str
    ELSE IF Head(str) = " " THEN trim(Tail(str))
    ELSE IF str[Len(str)] = " " THEN trim(SubSeq(str, 1, Len(str) - 1))
    ELSE str

\* loadConfig(), for an environment that sets PRIVATE_KEY and
\* USE_UNIVERSAL_ROUTER only
loadConfig(privateKey, useUniversalRouter) ==
    IF Len(privateKey) = 0
    THEN [threw |-> TRUE,
          message |-> "Missing required environment variable: PRIVATE_KEY"]
    ELSE IF trim(privateKey) = <<>>
    THEN [threw |-> TRUE, message |-> "PRIVATE_KEY cannot be empty or whitespace"]
    ELSE [threw |-> FALSE, message |-> "none",
          privateKey |-> trim(privateKey),
          slippage |-> Num(DEFAULT_SLIPPAGE * 1000),
          deadlineSeconds |-> DEFAULT_DEADLINE_SECONDS,
          minLiquidityUsd |-> DEFAULT_MIN_LIQUIDITY_USD,
          useUniversalRouter |-> useUniversalRouter]

\* validateSlippage(value); a value with at most three decimals is off a whole
\* hundredth by more than 1e-9 exactly when its third decimal is not 0
validateSlippage(value) ==
    IF value.nan
    THEN Threw("Invalid slippage: not a number")
    ELSE IF value.milli < 10 \/ value.milli > 99990
    THEN Threw("Slippage must be between 0.01% and 99.99%")
    ELSE IF value.milli % 10 # 0
    THEN Threw("Slippage must have at most 2 decimal places")
    ELSE Value(value.milli)

\* ------------------------------------------------------------- swap.ts ----

\* parseUnits(text, 'gwei')
parseUnitsGwei(gwei) == Wei(gwei * GweiInLimbs, 0)

\* variant: the quotient is rounded up
getGasParamsRoundUp(feeData) ==
    LET baseFee == IF feeData.isNull
                   THEN parseUnitsGwei(DEFAULT_BASE_FEE_GWEI)
                   ELSE feeData.amount
        product == weiTimes(baseFee, 100 + GAS_FEE_BUFFER_PERCENT)
    IN  [maxFeePerGas |->
             weiDiv(Wei(product.hi + ((product.lo + 99) \div WeiLimb),
                        (product.lo + 99) % WeiLimb), 100),
         maxPriorityFeePerGas |-> parseUnitsGwei(BSC_PRIORITY_FEE_GWEI)]

\* variant: the buffer is taken off
getGasParamsDiscount(feeData) ==
    LET baseFee == IF feeData.isNull
                   THEN parseUnitsGwei(DEFAULT_BASE_FEE_GWEI)
                   ELSE feeData.amount
    IN  [maxFeePerGas |->
             weiDiv(weiTimes(baseFee, 100 - GAS_FEE_BUFFER_PERCENT), 100),
         maxPriorityFeePerGas |-> parseUnitsGwei(BSC_PRIORITY_FEE_GWEI)]

\* getGasParams, after provider.getFeeData() answered feeData
getGasParams(feeData) ==
    LET baseFee == IF feeData.isNull
                   THEN parseUnitsGwei(DEFAULT_BASE_FEE_GWEI)
                   ELSE feeData.amount
    IN  [maxFeePerGas |->
             weiDiv(weiTimes(baseFee, 100 + GAS_FEE_BUFFER_PERCENT), 100),
         maxPriorityFeePerGas |-> parseUnitsGwei(BSC_PRIORITY_FEE_GWEI)]

\* getUniversalRouterAddress(dexId)
getUniversalRouterAddress(dexId) ==
    IF ~dexId.present \/ dexId.text = <<>>
    THEN PANCAKESWAP_UNIVERSAL_ROUTER
    ELSE LET normalized == toLowerCase(dexId.text) IN
         IF startsWith(normalized, <<"u", "n", "i", "s", "w", "a", "p">>)
         THEN UNISWAP_UNIVERSAL_ROUTER
         ELSE PANCAKESWAP_UNIVERSAL_ROUTER

\* iface.encodeFunctionData('exactInputSingle', [...]) of encodeExactInputSingle
encodeExactInputSingle(tokenOut, recipient, amountIn, amountOutMin, fee) ==
    [fn |-> "exactInputSingle", tokenIn |-> WBNB_ADDRESS, tokenOut |-> tokenOut,
     fee |-> fee, recipient |-> recipient, amountIn |-> amountIn,
     amountOutMinimum |-> amountOutMin, sqrtPriceLimitX96 |-> 0]

\* encodeV3SwapCommand: abiCoder.encode of the five values
encodeV3SwapCommand(recipient, amountIn, amountOutMin, tokenIn, tokenOut, fee) ==
    [types |-> <<"address", "uint256", "uint256", "bytes", "bool">>,
     recipient |-> recipient, amountIn |-> amountIn,
     amountOutMin |-> amountOutMin,
     path |-> encodeV3Path(tokenIn, tokenOut, fee), payerIsUser |-> TRUE]

\* encodeV2SwapCommand: abiCoder.encode of the five values
encodeV2SwapCommand(recipient, amountIn, amountOutMin, path) ==
    [types |-> <<"address", "uint256", "uint256", "address[]", "bool">>,
     recipient |-> recipient, amountIn |-> amountIn,
     amountOutMin |-> amountOutMin, path |-> path, payerIsUser |-> TRUE]

\* variant: the opcode is written without padding
commandBytesUnpadded(opcode) == <<"0", "x">> \o toString16(opcode)

\* '0x' + opcode.toString(16).padStart(2, '0')
commandBytes(opcode) == <<"0", "x">> \o padStart(toString16(opcode), 2, "0")

\* variant: the fee fields only
overridesFeesOnly(params, gasParams) ==
    [value |-> 0, maxFeePerGas |-> gasParams.maxFeePerGas,
     maxPriorityFeePerGas |-> gasParams.maxPriorityFeePerGas]

\* { value: params.amountIn, ...gasParams }
overrides(params, gasParams) ==
    [value |-> params.amountIn, maxFeePerGas |-> gasParams.maxFeePerGas,
     maxPriorityFeePerGas |-> gasParams.maxPriorityFeePerGas]

WriteCall(target, method, args, ov) ==
    NetCall("write", target, method, args, ov.value,
            [maxFeePerGas |-> ov.maxFeePerGas,
             maxPriorityFeePerGas |-> ov.maxPriorityFeePerGas])

\* executeUniversalSwap after getGasParams: the call router.execute(...)
universalSwapCall(params, gasParams) ==
    LET routerAddress == getUniversalRouterAddress(params.dexId)
        commands == IF params.poolType = "v2"
                    THEN commandBytes(V2_SWAP_EXACT_IN)
                    ELSE commandBytes(V3_SWAP_EXACT_IN)
        inputs == IF params.poolType = "v2"
                  THEN <<encodeV2SwapCommand(params.recipient, params.amountIn,
                             params.amountOutMin,
                             <<WBNB_ADDRESS, params.tokenOut>>)>>
                  ELSE <<encodeV3SwapCommand(params.recipient, params.amountIn,
                             params.amountOutMin, WBNB_ADDRESS,
                             params.tokenOut, DEFAULT_V3_POOL_FEE)>>
    IN  WriteCall(routerAddress, "execute",
                  <<commands, inputs, params.deadline>>,
                  overrides(params, gasParams))

\* executeSwap after getGasParams, legacy routers: the call of the v2 or of
\* the v3 router
legacySwapCall(params, gasParams) ==
    IF params.poolType = "v2"
    THEN WriteCall(PANCAKESWAP_V2_ROUTER, "swapExactETHForTokens",
                   <<params.amountOutMin, <<WBNB_ADDRESS, params.tokenOut>>,
                     params.recipient, params.deadline>>,
                   overrides(params, gasParams))
    ELSE WriteCall(PANCAKESWAP_V3_ROUTER, "multicall",
                   <<params.deadline,
                     <<encodeExactInputSingle(params.tokenOut, params.recipient,
                           params.amountIn, params.amountOutMin,
                           DEFAULT_V3_POOL_FEE)>>>>,
                   overrides(params, gasParams))

\* variant: the legacy routers whatever the flag
swapCallLegacyOnly(params, useUniversalRouter, gasParams) ==
    legacySwapCall(params, gasParams)

\* variant: the value sent depends on the address of the pool
swapCallPoolDependent(params, useUniversalRouter, gasParams) ==
    LET call == IF useUniversalRouter
                THEN universalSwapCall(params, gasParams)
                ELSE legacySwapCall(params, gasParams)
    IN  [call EXCEPT !.value = call.value + params.pairAddress]

\* executeSwap: the state-changing call issued once the gas parameters are known
swapCall(params, useUniversalRouter, gasParams) ==
    IF useUniversalRouter
    THEN universalSwapCall(params, gasParams)
    ELSE legacySwapCall(params, gasParams)

\* ------------------------------------------------------------- index.ts ----

\* parseEther(amount), in amount units
parseEther(amount) ==
    CASE amount = "0" -> Value(0)
      [] amount = "0.0" -> Value(0)
      [] amount = "-1" -> Value(0 - EtherInUnits)
      [] amount = "0.01" -> Value(EtherInUnits \div 100)
      [] amount = "1" -> Value(EtherInUnits)
      [] OTHER -> Threw("invalid FixedNumber string value")

\* the two-decimal values v, in hundredths up to 116, for which the double
\* v * 100 lies just below the whole number (0.29 * 100 is 28.999999999999996)
ProductJustBelow == {29, 57, 58, 113, 114, 115, 116}

\* Math.floor(slippage * 100) for a validated slippage, carried in thousandths
floorTimes100(milli) ==
    IF (milli \div 10) \in ProductJustBelow
    THEN (milli \div 10) - 1
    ELSE milli \div 10

\* variant: a failure of the swap is reported as a new error
rethrowWrapped(err) == SwThrew(Err("Error", "Swap failed"))

\* runSwap: catch (err) { ...; throw err; } and the propagation out of
\* executeSwap
rethrow(err) == SwThrew(err)

NoPoolSelected == [pairAddress |-> 0, poolType |-> "none", dexId |-> <<>>,
                   liquidity |-> NoValue]

NoParams == [pairAddress |-> 0, tokenIn |-> <<>>, tokenOut |-> <<>>,
             amountIn |-> 0, amountOutMin |-> 0, slippageBps |-> 0,
             recipient |-> "none", poolType |-> "none", deadline |-> 0,
             dexId |-> NoDexId]

NoLocals == [useUniversalRouter |-> FALSE, deadlineSeconds |-> 0,
             slippage |-> 0, pool |-> NoPoolSelected,
             amountIn |-> 0, slippageBps |-> 0, expectedOutput |-> 0 - 1,
             params |-> NoParams, feeData |-> NullFee, gasParams |-> NoFees,
             txHash |-> "none", writeError |-> NoErr, stages |-> <<>>]

\* variant: a failed selection does not end the run
prepareAmountWhateverPool(amount, pairsAnswer, min) ==
    LET parsed == parseEther(amount)
    IN  IF parsed.threw
        THEN Threw("Invalid amount format")
        ELSE IF parsed.value <= 0
        THEN Threw("Amount must be greater than 0")
        ELSE Value(parsed.value)

\* runSwap from the selection of the pool to the call of getExpectedOutput
prepareAmount(amount, pairsAnswer, min) ==
    LET result == selectBestPool(pairsAnswer, min)
        parsed == parseEther(amount)
    IN  IF ~result.success
        THEN IF result.reason = "insufficient_liquidity"
             THEN Threw("No pools with sufficient liquidity")
             ELSE Threw("No suitable pools found")
        ELSE IF parsed.threw
        THEN Threw("Invalid amount format")
        ELSE IF parsed.value <= 0
        THEN Threw("Amount must be greater than 0")
        ELSE Value(parsed.value)

\* variant: the minimum output is derived from the input amount
swapParamsMinFromInput(pool, tokenAddress, amountIn, amountOutMin, slippageBps, deadline) ==
    [pairAddress |-> pool.pairAddress, tokenIn |-> WBNB_ADDRESS,
     tokenOut |-> tokenAddress, amountIn |-> amountIn,
     amountOutMin |-> calculateAmountOutMin(amountIn, 2 * slippageBps).value,
     slippageBps |-> slippageBps, recipient |-> WalletAddress,
     poolType |-> pool.poolType, deadline |-> deadline, dexId |-> NoDexId]

\* runSwap: the swapParams literal
swapParams(pool, tokenAddress, amountIn, amountOutMin, slippageBps, deadline) ==
    [pairAddress |-> pool.pairAddress, tokenIn |-> WBNB_ADDRESS,
     tokenOut |-> tokenAddress, amountIn |-> amountIn,
     amountOutMin |-> amountOutMin, slippageBps |-> slippageBps,
     recipient |-> WalletAddress, poolType |-> pool.poolType,
     deadline |-> deadline, dexId |-> NoDexId]

\* ------------------------------------------------------------- actions ----

RunSwapInputs ==
    [entry : {"runSwap"}, tokenAddress : TokenAddresses, amount : AmountTexts,
     slippageOverride : {Absent} \cup {Present(n) : n \in SlippageNumbers},
     privateKey : PrivateKeys, useUniversalRouter : BOOLEAN,
     now : ClockSeconds, params : {NoParams}]

\* the SwapParams of a direct call of executeSwap
DirectParams ==
    [pairAddress : {1}, tokenIn : {WBNB_ADDRESS}, tokenOut : TokenAddresses,
     amountIn : {EtherInUnits \div 100}, amountOutMin : {0, 9},
     slippageBps : {100}, recipient : {WalletAddress}, poolType : {"v2", "v3"},
     deadline : {1700000030},
     dexId : {NoDexId} \cup {DexId(d) : d \in SwapDexIds}]

InitSwap ==
    /\ \/ swIn \in RunSwapInputs
       \/ \E p \in DirectParams, u \in BOOLEAN :
              swIn = [entry |-> "executeSwap", tokenAddress |-> p.tokenOut,
                      amount |-> "0.01", slippageOverride |-> Absent,
                      privateKey |-> <<"k", "e", "y">>,
                      useUniversalRouter |-> u, now |-> 1700000000,
                      params |-> p]
    /\ swPc = "start"
    /\ swLocals = NoLocals
    /\ swNet = <<>>
    /\ swOutcome = SwPending
    /\ RetryIdle
    /\ SelIdle
    /\ QuoteIdle
    /\ PathIdle
    /\ GasIdle

swapFrame == <<retryVars, selVars, quoteVars, pathVars, gasVars>>

\* runSwap up to `await fetchPools(tokenAddress)`
RunSwap ==
    /\ swPc = "start"
    /\ swIn.entry = "runSwap"
    /\ LET config == loadConfig(swIn.privateKey, swIn.useUniversalRouter) IN
        IF config.threw
        THEN /\ swOutcome' = SwThrew(Err("Error", config.message))
             /\ swPc' = "done"
             /\ UNCHANGED <<swLocals, swNet>>
        ELSE LET rawSlippage == IF swIn.slippageOverride.present
                                THEN swIn.slippageOverride.value
                                ELSE config.slippage
                 slippage == validateSlippage(rawSlippage)
             IN  IF slippage.threw
                 THEN /\ swOutcome' = SwThrew(Err("Error", slippage.message))
                      /\ swPc' = "done"
                      /\ UNCHANGED <<swLocals, swNet>>
                 ELSE /\ swLocals' =
                             [swLocals EXCEPT
                                 !.useUniversalRouter = config.useUniversalRouter,
                                 !.deadlineSeconds = config.deadlineSeconds,
                                 !.slippage = slippage.value,
                                 !.stages = <<"fetch">>]
                      /\ swNet' = Append(swNet, FetchCall(swIn.tokenAddress))
                      /\ swPc' = "fetching"
                      /\ UNCHANGED swOutcome
    /\ UNCHANGED swIn
    /\ UNCHANGED swapFrame

\* fetchPools resolves: runSwap runs on to `await getExpectedOutput(...)`
FetchResolves ==
    /\ swPc = "fetching"
    /\ \E n \in 0..MaxPairs :
       \E shapes \in [1..n -> SwapListingShapes], dexIds \in [1..n -> ListingDexIds] :
         LET pairsAnswer == [i \in 1..n |-> SwapListing(i, shapes[i], dexIds[i])]
             result == selectBestPool(pairsAnswer, DEFAULT_MIN_LIQUIDITY_USD)
             amountIn == prepareAmount(swIn.amount, pairsAnswer,
                                       DEFAULT_MIN_LIQUIDITY_USD)
         IN  IF amountIn.threw
             THEN /\ swOutcome' = SwThrew(Err("Error", amountIn.message))
                  /\ swPc' = "done"
                  /\ swLocals' =
                         IF result.success
                         THEN [swLocals EXCEPT
                                  !.pool = result.pool,
                                  !.stages = Append(swLocals.stages, "select")]
                         ELSE [swLocals EXCEPT
                                  !.stages = Append(swLocals.stages, "select")]
                  /\ UNCHANGED swNet
             ELSE /\ swLocals' =
                         [swLocals EXCEPT
                             !.pool = result.pool,
                             !.amountIn = amountIn.value,
                             !.slippageBps = floorTimes100(swLocals.slippage),
                             !.stages = swLocals.stages \o <<"select", "quote">>]
                  /\ swNet' = Append(swNet,
                                 GetAmountsOutCall(amountIn.value, WBNB_ADDRESS,
                                                   swIn.tokenAddress))
                  /\ swPc' = "quoting"
                  /\ UNCHANGED swOutcome
    /\ UNCHANGED swIn
    /\ UNCHANGED swapFrame

\* fetchPools rejects: the rejection leaves runSwap
FetchRejects ==
    /\ swPc = "fetching"
    /\ \E e \in FetchErrors : swOutcome' = SwThrew(e)
    /\ swPc' = "done"
    /\ UNCHANGED <<swIn, swLocals, swNet>>
    /\ UNCHANGED swapFrame

\* getAmountsOut resolves: runSwap runs on into executeSwap, up to
\* `await provider.getFeeData()` of getGasParams
QuoteResolves ==
    /\ swPc = "quoting"
    /\ \E answer \in QuoteAnswers :
         LET amountOutMin == calculateAmountOutMin(answer, 2 * swLocals.slippageBps)
             deadline == swIn.now + swLocals.deadlineSeconds
         IN  IF amountOutMin.threw
             THEN /\ swOutcome' = SwThrew(Err("Error", amountOutMin.message))
                  /\ swPc' = "done"
                  /\ swLocals' =
                         [swLocals EXCEPT
                             !.expectedOutput = answer,
                             !.stages = Append(swLocals.stages, "calculate")]
                  /\ UNCHANGED swNet
             ELSE /\ swLocals' =
                         [swLocals EXCEPT
                             !.expectedOutput = answer,
                             !.stages = Append(swLocals.stages, "calculate"),
                             !.params = swapParams(swLocals.pool, swIn.tokenAddress,
                                            swLocals.amountIn, amountOutMin.value,
                                            swLocals.slippageBps, deadline)]
                  /\ swNet' = Append(swNet, GetFeeDataCall)
                  /\ swPc' = "feeData"
                  /\ UNCHANGED swOutcome
    /\ UNCHANGED swIn
    /\ UNCHANGED swapFrame

\* getAmountsOut rejects: the rejection leaves runSwap
QuoteRejects ==
    /\ swPc = "quoting"
    /\ \E e \in ChainErrors : swOutcome' = SwThrew(e)
    /\ swPc' = "done"
    /\ UNCHANGED <<swIn, swLocals, swNet>>
    /\ UNCHANGED swapFrame

\* a direct call executeSwap(params, config, provider), up to
\* `await provider.getFeeData()` of getGasParams
ExecuteSwap ==
    /\ swPc = "start"
    /\ swIn.entry = "executeSwap"
    /\ swLocals' = [swLocals EXCEPT
                       !.useUniversalRouter = swIn.useUniversalRouter,
                       !.amountIn = swIn.params.amountIn,
                       !.params = swIn.params]
    /\ swNet' = Append(swNet, GetFeeDataCall)
    /\ swPc' = "feeData"
    /\ UNCHANGED <<swIn, swOutcome>>
    /\ UNCHANGED swapFrame

\* getFeeData resolves: the swap call is built and sent
FeeDataResolves ==
    /\ swPc = "feeData"
    /\ \E feeData \in FeeDataAnswers :
         LET gasParams == getGasParams(feeData) IN
         /\ swLocals' = [swLocals EXCEPT
                            !.feeData = feeData,
                            !.gasParams = gasParams,
                            !.stages = Append(swLocals.stages, "submit")]
         /\ swNet' = Append(swNet, swapCall(swLocals.params,
                                            swLocals.useUniversalRouter, gasParams))
    /\ swPc' = "sending"
    /\ UNCHANGED <<swIn, swOutcome>>
    /\ UNCHANGED swapFrame

\* getFeeData rejects: the rejection leaves executeSwap and runSwap
FeeDataRejects ==
    /\ swPc = "feeData"
    /\ \E e \in ChainErrors : swOutcome' = rethrow(e)
    /\ swPc' = "done"
    /\ UNCHANGED <<swIn, swLocals, swNet>>
    /\ UNCHANGED swapFrame

\* the swap call resolves with a transaction: tx.hash is returned
WriteResolves ==
    /\ swPc = "sending"
    /\ \E hash \in TxHashes :
         /\ swLocals' = [swLocals EXCEPT !.txHash = hash]
         /\ swOutcome' = SwReturned(hash)
    /\ swPc' = "done"
    /\ UNCHANGED <<swIn, swNet>>
    /\ UNCHANGED swapFrame

\* the swap call rejects: the rejection leaves executeSwap and runSwap
WriteRejects ==
    /\ swPc = "sending"
    /\ \E e \in ChainErrors :
         /\ swLocals' = [swLocals EXCEPT !.writeError = e]
         /\ swOutcome' = rethrow(e)
    /\ swPc' = "done"
    /\ UNCHANGED <<swIn, swNet>>
    /\ UNCHANGED swapFrame

NextSwap ==
    \/ RunSwap
    \/ FetchResolves
    \/ FetchRejects
    \/ QuoteResolves
    \/ QuoteRejects
    \/ ExecuteSwap
    \/ FeeDataResolves
    \/ FeeDataRejects
    \/ WriteResolves
    \/ WriteRejects

SpecSwap == InitSwap /\ [][NextSwap]_vars

-----------------------------------------------------------------------------
(* getGasParams(provider), called on its own.                              *)

\* the reported fees 0..MaxFeeWei wei are explored one by one
MaxFeeWei == 120

\* what provider.getFeeData answers as maxFeePerGas: null, a few wei, and
\* amounts around 1, 2.5, 3, 5 and 10 gwei
GasFeeDataAnswers ==
    {NullFee}
    \cup {Fee(Wei(0, w)) : w \in 0..MaxFeeWei}
    \cup {Fee(Wei(hi, lo)) : hi \in {999, 1000, 2499, 2500, 3000, 5000, 10000},
                             lo \in {0, 1, 999999}}

NotSettled == [kind |-> "pending", feeData |-> NullFee, error |-> NoErr]
Resolved(feeData) == [kind |-> "resolved", feeData |-> feeData, error |-> NoErr]
Rejected(e) == [kind |-> "rejected", feeData |-> NullFee, error |-> e]

GasPending == [kind |-> "pending", value |-> NoFees, error |-> NoErr]
GasReturned(gasParams) ==
    [kind |-> "returned", value |-> gasParams, error |-> NoErr]
GasThrew(e) == [kind |-> "threw", value |-> NoFees, error |-> e]

InitGas ==
    /\ gasPc = "start"
    /\ gasFeeData = NotSettled
    /\ gasOutcome = GasPending
    /\ RetryIdle
    /\ SelIdle
    /\ QuoteIdle
    /\ PathIdle
    /\ SwapIdle

gasFrame == <<retryVars, selVars, quoteVars, pathVars, swapVars>>

\* getGasParams up to `await provider.getFeeData()`
GetGasParams ==
    /\ gasPc = "start"
    /\ gasPc' = "awaiting"
    /\ UNCHANGED <<gasFeeData, gasOutcome>>
    /\ UNCHANGED gasFrame

\* getFeeData resolves: the gas parameters are returned
GasFeeDataResolves ==
    /\ gasPc = "awaiting"
    /\ \E feeData \in GasFeeDataAnswers :
         /\ gasFeeData' = Resolved(feeData)
         /\ gasOutcome' = GasReturned(getGasParams(feeData))
    /\ gasPc' = "done"
    /\ UNCHANGED gasFrame

\* getFeeData rejects: the rejection leaves getGasParams
GasFeeDataRejects ==
    /\ gasPc = "awaiting"
    /\ \E e \in ChainErrors :
         /\ gasFeeData' = Rejected(e)
         /\ gasOutcome' = GasThrew(e)
    /\ gasPc' = "done"
    /\ UNCHANGED gasFrame

NextGas ==
    \/ GetGasParams
    \/ GasFeeDataResolves
    \/ GasFeeDataRejects

SpecGas == InitGas /\ [][NextGas]_vars

-----------------------------------------------------------------------------
(* Properties of withRetry, checked under SpecRetry                        *)

\* the failure classes the code retries
Retryable(error) == error.isAxiosError /\ categorizeError(error).isRetryable

\* a failure has been caught and is the one held by lastError
Caught == calls > 0 /\ lastError # NoError

\* C1: the wrapped call is invoked at most maxRetries + 1 times (4 with the
\* default maxRetries = 3) whatever the outcomes; when every attempt failed
\* retryably there were exactly maxRetries + 1 invocations and the call ended
\* with a DexscreenerApiError, not with another retry.
C1_BoundedAttempts ==
    /\ calls <= maxRetries + 1
    /\ (maxRetries = MAX_RETRIES => calls <= 4)
    /\ (pc = "done" /\ fails = calls =>
            /\ calls = maxRetries + 1
            /\ outcome.kind = "DexscreenerApiError"
            /\ outcome.isRetryable)

C1_Witness ==
    /\ pc = "done"
    /\ maxRetries = MAX_RETRIES
    /\ fails = 4
    /\ calls = 4
    /\ outcome.kind = "DexscreenerApiError"

\* C2: when the first k attempts fail retryably and attempt k+1 succeeds, the
\* call returns after exactly k+1 invocations and k sleeps, the i-th sleep
\* lasting baseDelayMs * 2^(i-1) (1000, 2000, 4000 ms by default); no sleep
\* follows a success or the final failed attempt.
C2_BackoffSchedule ==
    /\ \A i \in 1..Len(sleeps) : sleeps[i] = baseDelayMs * (2 ^ (i - 1))
    /\ (baseDelayMs = BASE_DELAY_MS =>
            \A i \in 1..Len(sleeps) :
                i <= 3 => sleeps[i] = <<1000, 2000, 4000>>[i])
    /\ (outcome.kind = "returned" =>
            /\ pc = "done"
            /\ fails <= maxRetries
            /\ calls = fails + 1
            /\ Len(sleeps) = fails
            /\ warns = fails)
    /\ (pc = "done" => Len(sleeps) = calls - 1 /\ timer = 0)

C2_Witness ==
    /\ outcome.kind = "returned"
    /\ baseDelayMs = BASE_DELAY_MS
    /\ fails = 3
    /\ calls = 4
    /\ sleeps = <<1000, 2000, 4000>>

\* C3: a non-retryable failure ends withRetry at the attempt where it occurs:
\* no further invocation and no backoff sleep follows it, and a
\* DexscreenerApiError flagged non-retryable and carrying the HTTP status is
\* raised; a first-attempt HTTP 400 gives exactly one invocation.
C3_NonRetryableEnds ==
    Caught /\ lastError.isAxiosError /\ ~categorizeError(lastError).isRetryable =>
        /\ pc = "done"
        /\ inFlight = 0
        /\ calls = attempt + 1
        /\ Len(sleeps) = attempt
        /\ timer = 0
        /\ outcome.kind = "DexscreenerApiError"
        /\ ~outcome.isRetryable
        /\ lastError.hasResponse
        /\ outcome.statusCode = lastError.status
        /\ outcome.statusCode # NoStatus
        /\ (attempt = 0 /\ lastError.status = 400 => calls = 1)

C3_Witness ==
    /\ Caught
    /\ lastError.isAxiosError
    /\ lastError.hasResponse
    /\ lastError.status = 400
    /\ calls = 1
    /\ pc = "done"
    /\ outcome.kind = "DexscreenerApiError"
    /\ outcome.statusCode = 400

\* what a classification by the status alone gives
RetryableStatus(status) == status = 429 \/ (status >= 500 /\ status <= 599)

\* number of attempts that have rejected so far; lastError is the error of
\* the attempt with index Rejections - 1
Rejections == calls - inFlight - (IF outcome.kind = "returned" THEN 1 ELSE 0)

\* the failure held by lastError was retried: a backoff sleep was scheduled
\* for it, or, on the last attempt, it was raised flagged retryable
TreatedAsRetryable ==
    /\ (Rejections - 1 < maxRetries => Len(sleeps) = Rejections)
    /\ (Rejections - 1 = maxRetries =>
            /\ pc = "done"
            /\ outcome.kind = "DexscreenerApiError"
            /\ outcome.isRetryable
            /\ Len(sleeps) = Rejections - 1)

\* the failure held by lastError was raised at once, flagged non-retryable
TreatedAsNonRetryable ==
    /\ pc = "done"
    /\ outcome.kind = "DexscreenerApiError"
    /\ ~outcome.isRetryable
    /\ outcome.statusCode = lastError.status
    /\ Len(sleeps) = Rejections - 1

\* the failure held by lastError was treated according to its status
ClassifiedByStatus ==
    IF RetryableStatus(lastError.status)
    THEN TreatedAsRetryable /\ (pc = "done" /\ outcome.kind = "DexscreenerApiError"
                                    => outcome.statusCode = lastError.status)
    ELSE TreatedAsNonRetryable

NamedTransient(error) ==
    /\ error.isAxiosError
    /\ \/ error.code \in {"ECONNABORTED", "ETIMEDOUT"}
       \/ error.hasResponse /\ RetryableStatus(error.status)
       \/ error.code \in {"ENOTFOUND", "ECONNREFUSED", "ENETUNREACH"}

\* C29 as stated: withRetry retries a failure only when it belongs to one of
\* the named transient classes (timeout code, HTTP 429, HTTP 5xx, DNS /
\* connection-refused / network-unreachable code); any other failure ends the
\* call at the attempt where it occurs.  Fails for an axios error without a
\* response whose code is none of the named ones.
C29_Claim_RetriesOnlyNamedClasses ==
    Caught /\ ~NamedTransient(lastError) =>
        /\ pc = "done"
        /\ Len(sleeps) = Rejections - 1

\* C5: an error that is not an axios error is re-raised as the same value,
\* not wrapped in DexscreenerApiError, at the attempt where it occurs, with no
\* retry and no sleep.
C5_NonAxiosRethrown ==
    Caught /\ ~lastError.isAxiosError =>
        /\ pc = "done"
        /\ outcome = Rethrown(lastError)
        /\ outcome.kind # "DexscreenerApiError"
        /\ inFlight = 0
        /\ calls = attempt + 1
        /\ Len(sleeps) = attempt
        /\ warns = attempt
        /\ timer = 0

C5_Witness ==
    /\ Caught
    /\ ~lastError.isAxiosError
    /\ lastError.code = "ECONNABORTED"
    /\ calls = 2
    /\ outcome.kind = "rethrown"
    /\ outcome.error = lastError

\* C6: attempts never overlap: at most one invocation of the wrapped call is
\* in flight, and attempt n+1 is in flight only after attempt n has failed
\* and its whole backoff delay has elapsed.
C6_SequentialAttempts ==
    /\ inFlight <= 1
    /\ (inFlight = 1 <=> pc = "fn")
    /\ (pc = "sleep" => inFlight = 0 /\ waited + timer = sleeps[Len(sleeps)])
    /\ (pc \in {"fn", "loop"} /\ attempt > 0 =>
            /\ Retryable(lastError)
            /\ Len(sleeps) = attempt
            /\ timer = 0
            /\ waited = sleeps[attempt]
            /\ waited = backoffDelay(baseDelayMs, attempt - 1))
    /\ (pc = "fn" => calls = attempt + 1)

C6_Witness ==
    /\ pc = "fn"
    /\ inFlight = 1
    /\ calls = 3
    /\ waited = 2 * baseDelayMs

-----------------------------------------------------------------------------
(* Properties of selectBestPool, checked under SpecSelect                  *)

\* USD liquidity of listing i, a missing value counted as 0
UsdOf(i) == IF pairs[i].hasLiquidityUsd THEN pairs[i].usd ELSE 0

\* listing i passes the chain and label filters
PassesFilters(i) ==
    /\ pairs[i].chainId = "bsc"
    /\ pairs[i].hasLabels
    /\ \E k \in 1..Len(pairs[i].labels) : pairs[i].labels[k] \in {"v2", "v3"}

\* listing i passes the filters and reaches the threshold
Qualifies(i) == PassesFilters(i) /\ UsdOf(i) >= minLiquidityUsd

Qualifying == {i \in 1..Len(pairs) : Qualifies(i)}

\* the returned pool carries the address, DEX identifier and liquidity of listing i
BuiltFrom(i) ==
    /\ selResult.pool.pairAddress = pairs[i].pairAddress
    /\ selResult.pool.dexId = pairs[i].dexId
    /\ selResult.pool.liquidity = UsdOf(i)

\* C7: selectBestPool returns success if and only if some listing has chain
\* identifier 'bsc', a label equal to 'v2' or 'v3' and USD liquidity (missing
\* counted as 0) >= minLiquidityUsd; the returned pool is built from one of
\* those listings, and a listing exactly at the threshold qualifies.
C7_SuccessIffQualifying ==
    selCalls > 0 =>
        /\ (selResult.success <=> Qualifying # {})
        /\ (selResult.success => \E i \in Qualifying : BuiltFrom(i))
        /\ ((\E i \in 1..Len(pairs) : PassesFilters(i) /\ UsdOf(i) = minLiquidityUsd)
                => selResult.success)

C7_Witness ==
    /\ selCalls > 0
    /\ selResult.success
    /\ minLiquidityUsd = 1000
    /\ selResult.pool.liquidity = 1000
    /\ Len(pairs) = 2
    /\ Cardinality(Qualifying) = 1

C9_FailureReasons ==
    selCalls > 0 =>
        LET passing == {i \in 1..Len(pairs) : PassesFilters(i)} IN
        /\ (~selResult.success /\ selResult.reason = "no_valid_pools"
                <=> passing = {})
        /\ (~selResult.success /\ selResult.reason = "insufficient_liquidity"
                <=> passing # {} /\ Qualifying = {})
        /\ (selResult.reason = "insufficient_liquidity"
                => selResult.minLiquidityUsd = minLiquidityUsd)

C9_Witness ==
    /\ selCalls > 0
    /\ ~selResult.success
    /\ selResult.reason = "insufficient_liquidity"
    /\ selResult.minLiquidityUsd = 2000
    /\ Len(pairs) = 2
    /\ PassesFilters(1)
    /\ ~PassesFilters(2)
    /\ pairs[2].chainId = "ethereum"
    /\ UsdOf(2) = 5000

\* the first label of listing i, in the order of its labels, that is v2 or v3
FirstVersionLabel(i) ==
    LET ls == pairs[i].labels
        k == CHOOSE k \in 1..Len(ls) :
                /\ ls[k] \in {"v2", "v3"}
                /\ \A m \in 1..(k - 1) : ls[m] \notin {"v2", "v3"}
    IN ls[k]

\* C10: the pool version reported for the selected listing is the first of
\* its labels, in their order, that equals 'v2' or 'v3' (so a listing with
\* both resolves to whichever comes first), and a listing with neither is
\* never the selected one.
C10_FirstLabelWins ==
    selCalls > 0 /\ selResult.success =>
        \E i \in 1..Len(pairs) :
            /\ selResult.pool.pairAddress = pairs[i].pairAddress
            /\ pairs[i].hasLabels
            /\ \E k \in 1..Len(pairs[i].labels) : pairs[i].labels[k] \in {"v2", "v3"}
            /\ selResult.pool.poolType = FirstVersionLabel(i)

C10_Witness ==
    /\ selCalls > 0
    /\ selResult.success
    /\ Len(pairs) = 2
    /\ selResult.pool.pairAddress = 2
    /\ pairs[2].labels = <<"v3", "v2">>
    /\ selResult.pool.poolType = "v3"
    /\ pairs[1].labels = <<"stable">>
    /\ pairs[1].chainId = "bsc"
    /\ UsdOf(1) > UsdOf(2)

-----------------------------------------------------------------------------
(* Properties of calculateAmountOutMin, checked under SpecQuote            *)

QuoteCalled == quoteResult # QuoteNotCalled

\* slippageBps lies in [0, 10000]
SlippageInRange == slippageBpsX2 >= 0 /\ slippageBpsX2 <= 2 * 10000

\* C11 as stated: for slippageBps in [0, 10000] and expectedOutput >= 0 the
\* result lies in 0..expectedOutput and equals expectedOutput if and only if
\* slippageBps is 0.  Fails for expectedOutput = 0 (the result 0 equals it for
\* every tolerance) and for a tolerance below one basis point.
C11_Original_EqualIffZeroSlippage ==
    (QuoteCalled /\ SlippageInRange) =>
        /\ ~quoteResult.threw
        /\ 0 <= quoteResult.value
        /\ quoteResult.value <= expectedOutput
        /\ (quoteResult.value = expectedOutput) <=> (slippageBpsX2 = 0)

\* C11 (amended): for slippageBps in [0, 10000] and expectedOutput >= 0 the
\* result lies in 0..expectedOutput, and it equals expectedOutput if and only
\* if expectedOutput is 0 or slippageBps is below one basis point.
C11_EqualIffNothingToDeduct ==
    (QuoteCalled /\ SlippageInRange) =>
        /\ ~quoteResult.threw
        /\ 0 <= quoteResult.value
        /\ quoteResult.value <= expectedOutput
        /\ (quoteResult.value = expectedOutput)
               <=> (expectedOutput = 0 \/ slippageBpsX2 < 2)

\* a positive tolerance applied to an expected output of 0 returns 0
C11_Witness ==
    /\ QuoteCalled
    /\ expectedOutput = 0
    /\ slippageBpsX2 = 2 * 100
    /\ quoteResult = Value(0)

C13_ThrowsExactlyOutsideRange ==
    QuoteCalled =>
        /\ quoteResult.threw <=> ~SlippageInRange
        /\ quoteResult.threw =>
               quoteResult =
                   Threw("Slippage must be between 0 and 10000 basis points")
        /\ ~quoteResult.threw => quoteResult = Value(quoteResult.value)
        /\ ~quoteResult.threw => quoteResult.value >= 0

\* the smallest modelled value above 10000 was rejected, 10000 itself is not
C13_Witness ==
    /\ QuoteCalled
    /\ slippageBpsX2 = 2 * 10000 + 1
    /\ quoteResult.threw

-----------------------------------------------------------------------------
(* Properties of encodeV3Path, checked under SpecPath                      *)

\* the bytes a text of hexadecimal digits stands for
bytesOf(hex) ==
    [i \in 1..(Len(hex) \div 2) |->
        16 * hexValue(hex[2 * i - 1]) + hexValue(hex[2 * i])]

\* a uint24 as 3 bytes, most significant first
BigEndian3(n) == <<n \div 65536, (n \div 256) % 256, n % 256>>

PathEncoded == pathResult # <<>>

\* C20: the packed V3 path is exactly 43 bytes: the 20 bytes of tokenIn, then
\* the fee as a 3-byte big-endian integer, then the 20 bytes of tokenOut.
C20_PackedPathLayout ==
    PathEncoded =>
        /\ SubSeq(pathResult, 1, 2) = <<"0", "x">>
        /\ Len(pathResult) = 2 + 2 * 43
        /\ LET packed == bytesOf(slice2(pathResult)) IN
            /\ Len(packed) = 43
            /\ SubSeq(packed, 1, 20) = bytesOf(slice2(pathTokenIn))
            /\ SubSeq(packed, 21, 23) = BigEndian3(pathFee)
            /\ SubSeq(packed, 24, 43) = bytesOf(slice2(pathTokenOut))

\* the fee 2500 was packed as the bytes 00 09 c4 after 20 bytes aa
C20_Witness ==
    /\ PathEncoded
    /\ pathFee = 2500
    /\ pathTokenIn = AddressText(<<"A", "A">>, <<"A", "A">>, <<"A", "A">>)
    /\ pathTokenOut = AddressText(<<"b", "B">>, <<"b", "B">>, <<"b", "B">>)
    /\ SubSeq(pathResult, 41, 50) = <<"a", "a", "0", "0", "0", "9", "c", "4", "b", "b">>

-----------------------------------------------------------------------------
(* Properties of runSwap and executeSwap, checked under SpecSwap           *)

IsWrite(call) == call.kind = "write"

\* the state-changing calls issued so far
Writes == SelectSeq(swNet, IsWrite)

\* the messages of the validation failures: slippage, amount, basis points
ValidationMessages ==
    {"Invalid slippage: not a number",
     "Slippage must be between 0.01% and 99.99%",
     "Slippage must have at most 2 decimal places",
     "Invalid amount format",
     "Amount must be greater than 0",
     "Slippage must be between 0 and 10000 basis points"}

RejectedInputs ==
    /\ swOutcome.kind = "threw"
    /\ swOutcome.error.message \in ValidationMessages

\* C14 as stated: when runSwap rejects its inputs (malformed slippage,
\* non-numeric amount, zero or negative amount, out-of-range basis points), no
\* network call has been issued.  Fails for the amount, which is parsed after
\* the discovery fetch has resolved.
C14_Claim_ValidationBeforeNetwork == RejectedInputs => swNet = <<>>

\* C15: a failure of the transaction submission leaves executeSwap and runSwap
\* as the very error the chain client rejected with, and at most one write call
\* is issued per swap request.
C15_SubmissionFailureVerbatimNoRetry ==
    /\ Len(Writes) <= 1
    /\ swLocals.writeError # NoErr =>
           /\ swPc = "done"
           /\ swOutcome = SwThrew(swLocals.writeError)
           /\ Len(Writes) = 1

\* a swap requested through runSwap whose submission was rejected
C15_Witness ==
    /\ swIn.entry = "runSwap"
    /\ swLocals.writeError = Err("Error", "insufficient funds")
    /\ swOutcome = SwThrew(Err("Error", "insufficient funds"))
    /\ Len(Writes) = 1

\* C16: executeSwap issues exactly one state-changing call, chosen by the flag
\* and the pool version: flag off, v2 calls swapExactETHForTokens on the
\* PancakeSwap V2 router and v3 calls multicall on the PancakeSwap V3 router;
\* flag on, one execute call goes to a universal router and to no legacy
\* router; the hash of that call's transaction is what is returned.
C16_OneCallByFlagAndVersion ==
    /\ Len(Writes) <= 1
    /\ swPc = "sending" => Len(Writes) = 1
    /\ \A i \in DOMAIN Writes :
        LET call == Writes[i]
            poolType == swLocals.params.poolType
        IN  /\ poolType \in {"v2", "v3"}
            /\ (~swIn.useUniversalRouter /\ poolType = "v2") =>
                   /\ call.target = PANCAKESWAP_V2_ROUTER
                   /\ call.method = "swapExactETHForTokens"
            /\ (~swIn.useUniversalRouter /\ poolType = "v3") =>
                   /\ call.target = PANCAKESWAP_V3_ROUTER
                   /\ call.method = "multicall"
            /\ swIn.useUniversalRouter =>
                   /\ call.target \in {PANCAKESWAP_UNIVERSAL_ROUTER,
                                       UNISWAP_UNIVERSAL_ROUTER}
                   /\ call.method = "execute"
    /\ swOutcome.kind = "returned" =>
           /\ Len(Writes) = 1
           /\ swLocals.txHash \in TxHashes
           /\ swOutcome = SwReturned(swLocals.txHash)

\* a v3 swap in universal mode returned the hash of its one execute call
C16_Witness ==
    /\ swIn.entry = "runSwap"
    /\ swIn.useUniversalRouter
    /\ swLocals.params.poolType = "v3"
    /\ Len(Writes) = 1
    /\ Writes[1].method = "execute"
    /\ swOutcome = SwReturned("0xhash2")

\* C17: every outbound swap call, legacy or universal, v2 or v3, carries value
\* equal to amountIn and the maxFeePerGas and maxPriorityFeePerGas that
\* getGasParams gave for that swap.
C17_ValueAndFeesAttached ==
    \A i \in DOMAIN Writes :
        LET call == Writes[i] IN
        /\ call.value = swLocals.params.amountIn
        /\ swIn.entry = "runSwap" => call.value = parseEther(swIn.amount).value
        /\ call.value > 0
        /\ call.maxFeePerGas = getGasParams(swLocals.feeData).maxFeePerGas
        /\ call.maxPriorityFeePerGas =
               getGasParams(swLocals.feeData).maxPriorityFeePerGas
        /\ call.maxPriorityFeePerGas = Wei(3 * GweiInLimbs, 0)

\* 0.01 of the native asset was sent to a universal router at the default fee
\* of 5 gwei plus 20 percent
C17_Witness ==
    /\ Len(Writes) = 1
    /\ swIn.entry = "runSwap"
    /\ Writes[1].method = "execute"
    /\ swLocals.feeData = NullFee
    /\ Writes[1].value = EtherInUnits \div 100
    /\ Writes[1].maxFeePerGas = Wei(6 * GweiInLimbs, 0)

\* the DEX identifier of the pool the swap goes through
SelectedDexId ==
    IF swIn.entry = "runSwap"
    THEN swLocals.pool.dexId
    ELSE swLocals.params.dexId.text

\* C18 as stated: in universal-router mode the swap is sent to the Uniswap
\* universal router when the selected pool's DEX identifier begins with
\* 'uniswap' in any letter case, and to the PancakeSwap universal router
\* otherwise.  Fails for runSwap, whose swapParams carry no dexId.
C18_Claim_RouterBySelectedDex ==
    \A i \in DOMAIN Writes :
        swIn.useUniversalRouter =>
            Writes[i].target =
                IF startsWith(toLowerCase(SelectedDexId),
                              <<"u", "n", "i", "s", "w", "a", "p">>)
                THEN UNISWAP_UNIVERSAL_ROUTER
                ELSE PANCAKESWAP_UNIVERSAL_ROUTER

\* C19: in universal-router mode the commands are the single byte 0x08 for a v2
\* pool and the single byte 0x00 for a v3 pool, paired with exactly one input:
\* the encoding for that command.
C19_OneCommandOneInput ==
    \A i \in DOMAIN Writes :
        LET call == Writes[i]
            params == swLocals.params
        IN  call.method = "execute" =>
            /\ params.poolType = "v2" =>
                   /\ call.args[1] = <<"0", "x", "0", "8">>
                   /\ call.args[2] =
                          <<encodeV2SwapCommand(params.recipient, params.amountIn,
                                params.amountOutMin,
                                <<WBNB_ADDRESS, params.tokenOut>>)>>
            /\ params.poolType # "v2" =>
                   /\ params.poolType = "v3"
                   /\ call.args[1] = <<"0", "x", "0", "0">>
                   /\ call.args[2] =
                          <<encodeV3SwapCommand(params.recipient, params.amountIn,
                                params.amountOutMin, WBNB_ADDRESS,
                                params.tokenOut, DEFAULT_V3_POOL_FEE)>>
            /\ bytesOf(slice2(call.args[1])) \in {<<8>>, <<0>>}
            /\ Len(call.args[2]) = 1

\* a v2 swap in universal mode was sent with the command 0x08
C19_Witness ==
    /\ Len(Writes) = 1
    /\ swIn.useUniversalRouter
    /\ swLocals.params.poolType = "v2"
    /\ Writes[1].args[1] = <<"0", "x", "0", "8">>
    /\ Writes[1].args[2][1].types[4] = "address[]"

-----------------------------------------------------------------------------
(* Properties of getGasParams, checked under SpecGas                       *)

\* the base fee getGasParams starts from: the reported one, or 5 gwei
ObservedOrDefault ==
    IF gasFeeData.feeData.isNull
    THEN Wei(5 * GweiInLimbs, 0)
    ELSE gasFeeData.feeData.amount

\* a < b on fee amounts
weiLess(a, b) == ~weiLeq(b, a)

\* C21: getGasParams returns maxFeePerGas = floor(b * 120 / 100), b being the
\* reported maxFeePerGas or 5 gwei when none is reported, and
\* maxPriorityFeePerGas = 3 gwei whatever is reported; it fails only when the
\* fee-data call fails, and then with that same error.
C21_BufferedFeeAndFixedTip ==
    /\ gasOutcome.kind = "returned" <=> gasFeeData.kind = "resolved"
    /\ gasOutcome.kind = "threw" <=> gasFeeData.kind = "rejected"
    /\ gasOutcome.kind = "threw" => gasOutcome = GasThrew(gasFeeData.error)
    /\ gasOutcome.kind = "returned" =>
        LET m == gasOutcome.value.maxFeePerGas
            b120 == weiTimes(ObservedOrDefault, 120)
        IN  /\ m.lo >= 0 /\ m.lo < WeiLimb /\ m.hi >= 0
            /\ weiLeq(weiTimes(m, 100), b120)
            /\ weiLess(b120, weiTimes(Wei(m.hi, m.lo + 1), 100))
            /\ gasOutcome.value.maxPriorityFeePerGas = Wei(3 * GweiInLimbs, 0)

\* 99 wei reported: 118.8 is returned as 118 wei, the tip is 3 gwei
C21_Witness ==
    /\ gasFeeData = Resolved(Fee(Wei(0, 99)))
    /\ gasOutcome.kind = "returned"
    /\ gasOutcome.value.maxFeePerGas = Wei(0, 118)
    /\ gasOutcome.value.maxPriorityFeePerGas = Wei(3000, 0)

\* C22: in every GasEstimate returned, maxFeePerGas is at least the raw fee
\* the chain client reported.
C22_AtLeastObservedFee ==
    (gasOutcome.kind = "returned" /\ ~gasFeeData.feeData.isNull) =>
        weiLeq(gasFeeData.feeData.amount, gasOutcome.value.maxFeePerGas)

\* 4 wei reported: the buffer is lost to the division, 4 wei is returned
C22_Witness ==
    /\ gasFeeData = Resolved(Fee(Wei(0, 4)))
    /\ gasOutcome.kind = "returned"
    /\ gasOutcome.value.maxFeePerGas = Wei(0, 4)

\* C28 as stated: in every GasEstimate returned, maxPriorityFeePerGas does not
\* exceed maxFeePerGas.  Fails for every reported fee below 2.5 gwei: the tip
\* is 3 gwei whatever is reported.
C28_Claim_TipWithinMaxFee ==
    gasOutcome.kind = "returned" =>
        weiLeq(gasOutcome.value.maxPriorityFeePerGas,
               gasOutcome.value.maxFeePerGas)

-----------------------------------------------------------------------------
(* Further properties of selectBestPool, checked under SpecSelect          *)

-----------------------------------------------------------------------------
(* Properties of fetchPools, checked under SpecRetry                       *)

\* C24: a successful fetchPools call returns the payload's listing array, and
\* the empty array, never null or undefined, when the payload's listing field
\* is absent or null.
C24_ListingArrayOrEmpty ==
    outcome.kind = "returned" =>
        /\ response \in PairsFields
        /\ response \in {"undefined", "null"} => outcome.value = "[]"
        /\ response \notin {"undefined", "null"} => outcome.value = response
        /\ outcome.value \in FnValues

\* after one failed attempt the payload came with pairs: null
C24_Witness ==
    /\ outcome = Returned("[]")
    /\ response = "null"
    /\ calls = 2

-----------------------------------------------------------------------------
(* Further properties of runSwap, checked under SpecSwap                   *)

IsPrefix(a, b) == Len(a) <= Len(b) /\ a = SubSeq(b, 1, Len(a))

\* the network calls of a complete run, by kind and method, in order
CallOrder == <<"GET", "getAmountsOut", "getFeeData">>

CallMethods == [i \in DOMAIN swNet |-> swNet[i].method]

\* C25: within one runSwap each stage runs at most once and in the order
\* discovery fetch, pool selection, quote read, minimum-output calculation,
\* submission; the submission is reached only if every earlier stage
\* succeeded, so a discovery error, a selection failure, an invalid amount or a
\* quote failure issues no write call.
C25_StagesInOrderOnce ==
    swIn.entry = "runSwap" =>
        /\ IsPrefix(swLocals.stages, StageOrder)
        /\ IsPrefix(SubSeq(CallMethods, 1, Len(swNet) - Len(Writes)), CallOrder)
        /\ \A i \in DOMAIN swNet : IsWrite(swNet[i]) => i = 4
        /\ Len(Writes) = 1 <=> swLocals.stages = StageOrder
        /\ Len(Writes) >= 1 =>
               /\ swLocals.pool.poolType \in {"v2", "v3"}
               /\ ~parseEther(swIn.amount).threw
               /\ parseEther(swIn.amount).value > 0
               /\ swLocals.expectedOutput \in QuoteAnswers
        /\ (/\ swOutcome.kind = "threw"
            /\ \/ swOutcome.error \in FetchErrors
               \/ swOutcome.error.message \in
                      {"No pools with sufficient liquidity",
                       "No suitable pools found", "Invalid amount format",
                       "Amount must be greater than 0"}
               \/ swLocals.stages = <<"fetch", "select", "quote">>)
           => Len(Writes) = 0

\* a run went through the five stages and returned
C25_Witness ==
    /\ swIn.entry = "runSwap"
    /\ swLocals.stages = StageOrder
    /\ Len(swNet) = 4
    /\ swOutcome.kind = "returned"

\* the minimum-output argument of a swap call
MinOutputArgument(call) ==
    IF call.method = "swapExactETHForTokens" THEN call.args[1]
    ELSE IF call.method = "multicall" THEN call.args[2][1].amountOutMinimum
    ELSE call.args[2][1].amountOutMin

\* C26: in every mode and for both pool versions the minimum-output argument
\* of the outbound swap call equals calculateAmountOutMin applied to the
\* expected output the quote read of the same run returned, with the basis
\* points of the run.
C26_MinOutputFromQuote ==
    \A i \in DOMAIN Writes :
        swIn.entry = "runSwap" =>
            /\ swLocals.expectedOutput \in QuoteAnswers
            /\ 10000 * MinOutputArgument(Writes[i])
                   <= swLocals.expectedOutput * (10000 - swLocals.slippageBps)
            /\ swLocals.expectedOutput * (10000 - swLocals.slippageBps)
                   < 10000 * (MinOutputArgument(Writes[i]) + 1)
            /\ MinOutputArgument(Writes[i]) =
                   calculateAmountOutMin(swLocals.expectedOutput,
                                         2 * swLocals.slippageBps).value

\* a v3 swap in universal mode at 1 percent: 12345 quoted, 12221 submitted
C26_Witness ==
    /\ swIn.entry = "runSwap"
    /\ swIn.useUniversalRouter
    /\ Len(Writes) = 1
    /\ swLocals.params.poolType = "v3"
    /\ swLocals.expectedOutput = 12345
    /\ swLocals.slippageBps = 100
    /\ Writes[1].args[2][1].amountOutMin = 12221

\* C27 as stated: every slippage value that reaches calculateAmountOutMin
\* inside runSwap has passed validateSlippage and been converted as
\* floor(percentage * 100), so the basis-point argument is an integer in
\* [1, 9999] equal to the percentage times 100, and calculateAmountOutMin
\* does not raise.  Fails for 1.15 percent: the double 1.15 * 100 is
\* 114.99999999999999 and its floor is 114.
C27_Claim_BpsIsPercentTimes100 ==
    swIn.entry = "runSwap" /\ Len(swLocals.stages) >= 4 =>
        /\ ~validateSlippage(Num(swLocals.slippage)).threw
        /\ swLocals.slippageBps = floorTimes100(swLocals.slippage)
        /\ swLocals.slippageBps \in 1..9999
        /\ ~calculateAmountOutMin(swLocals.expectedOutput,
                                  2 * swLocals.slippageBps).threw
        /\ 10 * swLocals.slippageBps = swLocals.slippage

\* the swap parameters as the inputs, the answer of the quote read, and the
\* version and DEX identifier of the pool determine them
PoolFreeParams ==
    IF swIn.entry = "runSwap"
    THEN [pairAddress |-> 0, tokenIn |-> WBNB_ADDRESS,
          tokenOut |-> swIn.tokenAddress,
          amountIn |-> parseEther(swIn.amount).value,
          amountOutMin |->
              calculateAmountOutMin(swLocals.expectedOutput,
                  2 * floorTimes100(swLocals.slippage)).value,
          slippageBps |-> floorTimes100(swLocals.slippage),
          recipient |-> WalletAddress,
          poolType |-> swLocals.pool.poolType,
          deadline |-> swIn.now + swLocals.deadlineSeconds,
          dexId |-> NoDexId]
    ELSE [pairAddress |-> 0, tokenIn |-> swIn.params.tokenIn,
          tokenOut |-> swIn.params.tokenOut,
          amountIn |-> swIn.params.amountIn,
          amountOutMin |-> swIn.params.amountOutMin,
          slippageBps |-> swIn.params.slippageBps,
          recipient |-> swIn.params.recipient,
          poolType |-> swIn.params.poolType,
          deadline |-> swIn.params.deadline,
          dexId |-> swIn.params.dexId]

\* C30: the chain calls of a swap (the quote read and the swap write: target,
\* method, arguments, value) depend on the selected pool only through its
\* version and, in universal mode, its DEX identifier: the quote read is
\* determined by the amount and the token, and the write is the one built
\* from parameters in which the pool's address is blanked and its liquidity
\* does not occur, so two runs that differ only in the selected pool's
\* address or liquidity issue identical calls.
C30_CallsIndependentOfPoolAddress ==
    /\ \A i \in DOMAIN swNet :
           swNet[i].kind = "read" /\ swNet[i].method = "getAmountsOut" =>
               swNet[i] = GetAmountsOutCall(parseEther(swIn.amount).value,
                                            WBNB_ADDRESS, swIn.tokenAddress)
    /\ \A i \in DOMAIN Writes :
           Writes[i] = swapCall(PoolFreeParams, swIn.useUniversalRouter,
                                getGasParams(swLocals.feeData))

\* the second listing, with 7000 USD, was selected and the swap was sent
C30_Witness ==
    /\ swIn.entry = "runSwap"
    /\ Len(Writes) = 1
    /\ swLocals.pool.pairAddress = 2
    /\ swLocals.pool.liquidity = 7000
    /\ swLocals.params.pairAddress = 2

====
